---- MODULE Spec2Model ----
(***************************************************************************)
(* cadl-grpc: the gRPC/Protobuf emitter for CADL.                          *)
(*                                                                         *)
(* The model follows one compilation: the decorators of the CADL program   *)
(* run ($package, $service, $field), then $onEmit runs doEmit, which       *)
(* lowers the program to Protobuf files (cadlToProto) and writes them.     *)
(* The lowering is single-threaded and synchronous; its recursive helper   *)
(* functions are operators that thread the closure state of                *)
(* declarationsFromNamespace (declarations, visitedTypes) and the          *)
(* program's diagnostics through every call, in JavaScript's evaluation    *)
(* order.                                                                  *)
(***************************************************************************)
EXTENDS Integers, Sequences, FiniteSets, TLC

(***************************************************************************)
(* Bounds of the model.                                                    *)
(***************************************************************************)

\* Depth of nested visitType activations the call stack holds before the
\* engine throws a RangeError.
MaxDepth == 6

\* Largest number of properties of a generated operation parameter bag.
MaxParams == 2

\* Largest number of files handed to the writing loop of doEmit on its own.
MaxFiles == 2

(***************************************************************************)
(* grpc.ts: constants.                                                     *)
(***************************************************************************)

MAX_FIELD_INDEX == 2^29 - 1

IMPLEMENTATION_RESERVED_RANGE == <<19000, 19999>>

(***************************************************************************)
(* JavaScript values that reach the decorators and the field-index map.    *)
(* A number is num/den; den = 0 is NaN.                                    *)
(***************************************************************************)

JsNum(n) == [kind |-> "Number", num |-> n, den |-> 1, str |-> <<>>]

JsFrac(n, d) == [kind |-> "Number", num |-> n, den |-> d, str |-> <<>>]

JsNaN == [kind |-> "Number", num |-> 0, den |-> 0, str |-> <<>>]

JsStr(s) == [kind |-> "String", num |-> 0, den |-> 1, str |-> s]

undefined == [kind |-> "undefined", num |-> 0, den |-> 1, str |-> <<>>]

\* Number.isInteger(x)
IsInteger(x) == x.kind = "Number" /\ x.den # 0 /\ x.num % x.den = 0

\* x <= 0
LeqZero(x) == x.den # 0 /\ x.num <= 0

\* x > n, x >= n, x <= n for an integer n
Gt(x, n) == x.den # 0 /\ x.num > n * x.den

Geq(x, n) == x.den # 0 /\ x.num >= n * x.den

Leq(x, n) == x.den # 0 /\ x.num <= n * x.den

(***************************************************************************)
(* The source graph (the CADL program), consumed read-only.                *)
(***************************************************************************)

\* The namespace tree: the global namespace and its descendants, each with
\* its nested namespaces and its interfaces in declaration order.
Namespaces == {"G", "N1", "N2", "N3", "N4"}

NsNamespaces ==
  [G |-> <<"N1">>, N1 |-> <<"N2", "N3">>, N2 |-> <<"N4">>, N3 |-> <<>>, N4 |-> <<>>]

NsInterfaces ==
  [G |-> <<>>, N1 |-> <<"I1">>, N2 |-> <<"I2">>, N3 |-> <<"I3">>, N4 |-> <<"I4">>]

Interfaces == {"I1", "I2", "I3", "I4"}

\* Models declared by the program: three model statements and one
\* anonymous model expression (its name is the empty string).
UserModels == {"M1", "M2", "M3", "Anon"}

\* The models the compiler itself declares (namespace Cadl) and the
\* instantiations of Cadl.Map the program uses.  intrinsic is what
\* getIntrinsicModelName returns, "" when isIntrinsic is false.
\* args are the template arguments.
Ty(kind, id) == [kind |-> kind, id |-> id]

ModelT(id) == Ty("Model", id)

BuiltinModel(name, intrinsic, args) ==
  [name |-> name, ns |-> "Cadl", intrinsic |-> intrinsic, args |-> args]

UserModel(name) == [name |-> name, ns |-> "N1", intrinsic |-> "", args |-> <<>>]

ModelTable ==
  [ string   |-> BuiltinModel("string", "string", <<>>),
    bytes    |-> BuiltinModel("bytes", "bytes", <<>>),
    boolean  |-> BuiltinModel("boolean", "boolean", <<>>),
    int32    |-> BuiltinModel("int32", "int32", <<>>),
    int64    |-> BuiltinModel("int64", "int64", <<>>),
    uint32   |-> BuiltinModel("uint32", "uint32", <<>>),
    uint64   |-> BuiltinModel("uint64", "uint64", <<>>),
    float32  |-> BuiltinModel("float32", "float32", <<>>),
    float64  |-> BuiltinModel("float64", "float64", <<>>),
    int8     |-> BuiltinModel("int8", "int8", <<>>),
    Ctor     |-> [name |-> "Ctor", ns |-> "N1", intrinsic |-> "constructor", args |-> <<>>],
    MapSI    |-> BuiltinModel("Map", "Map", <<ModelT("string"), ModelT("int32")>>),
    MapSM2   |-> BuiltinModel("Map", "Map", <<ModelT("string"), ModelT("M2")>>),
    MapFS    |-> BuiltinModel("Map", "Map", <<ModelT("float32"), ModelT("string")>>),
    MapM3S   |-> BuiltinModel("Map", "Map", <<ModelT("M3"), ModelT("string")>>),
    MapSMap  |-> BuiltinModel("Map", "Map", <<ModelT("string"), ModelT("MapSI")>>),
    MapNone  |-> BuiltinModel("Map", "Map", <<>>),
    MyMap    |-> [name |-> "MyMap", ns |-> "N1", intrinsic |-> "Map", args |-> <<>>],
    M1       |-> UserModel("M1"),
    M2       |-> UserModel("M2"),
    M3       |-> UserModel("M3"),
    Anon     |-> UserModel("") ]

ModelIds == DOMAIN ModelTable

\* A type that is no model (t.kind is not "Model").
UnionT == Ty("Union", "U")

ArrayT == Ty("Array", "A")

\* A model property.
Prop(name, type) == [name |-> name, type |-> type]

\* An operation: its name, its parameter bag (a model expression, named by
\* bag) and its return type.
Op(name, bag, parameters, returnType) ==
  [name |-> name, bag |-> bag, parameters |-> parameters, returnType |-> returnType]

\* The syntax node kind of the parent of a property of `owner`: the three
\* model statements, or a model expression (an anonymous model, an
\* operation's parameter list).
ParentKind(owner) ==
  IF owner \in {"M1", "M2", "M3"} THEN "ModelStatement" ELSE "ModelExpression"

(***************************************************************************)
(* State.                                                                  *)
(***************************************************************************)

VARIABLES
  program,            \* the CADL program: operations, model properties, decorators, options
  pc,                 \* where the compilation is
  decoratorIdx,       \* the next decorator application to run
  packages,           \* program.stateMap(packageKey), in insertion order
  services,           \* program.stateSet(serviceKey)
  fieldIndex,         \* program.stateMap(fieldIndexKey)
  diagnostics,        \* the diagnostics reported through reportDiagnostic
  hostErrors,         \* the compiler itself recorded an error (decorator validation)
  files,              \* cadlToProto: the files mapped so far
  pkgIdx,             \* cadlToProto: the package entry being mapped
  serviceInterfaces,  \* declarationsFromNamespace: the collected interfaces, in insertion order
  ifaceIdx,           \* declarationsFromNamespace: the interface being reified
  opIdx,              \* the operation being projected
  methods,            \* the methods of the interface projected so far
  input,              \* toMethodFromOperation: the evaluated input of the method under construction
  declarations,       \* declarationsFromNamespace: declarations
  visitedTypes,       \* declarationsFromNamespace: visitedTypes, in insertion order
  fileIdx,            \* doEmit: the file being written
  fsLog               \* the calls made to program.host (mkdirp, writeFile), in order

vars ==
  << program, pc, decoratorIdx, packages, services, fieldIndex, diagnostics, hostErrors,
     files, pkgIdx, serviceInterfaces, ifaceIdx, opIdx, methods, input, declarations,
     visitedTypes, fileIdx, fsLog >>

(***************************************************************************)
(* Helpers on sequences used as insertion-ordered sets and maps.           *)
(***************************************************************************)

Range(s) == {s[i] : i \in 1..Len(s)}

\* Set.prototype.add
SetAdd(s, x) == IF x \in Range(s) THEN s ELSE Append(s, x)

\* Map.prototype.has / set on a sequence of [key, value] entries
MapHas(m, k) == \E i \in 1..Len(m) : m[i].key = k

MapSet(m, k, v) ==
  IF MapHas(m, k)
  THEN [i \in 1..Len(m) |-> IF m[i].key = k THEN [key |-> k, value |-> v] ELSE m[i]]
  ELSE Append(m, [key |-> k, value |-> v])

(***************************************************************************)
(* proto.ts: the wire types.                                               *)
(***************************************************************************)

scalar(t) == <<"$scalar", t>>

ref(t) == <<"$ref", t>>

map(k, v) == <<"$map", k, v>>

(***************************************************************************)
(* Lookups of the compiler (read-only).                                    *)
(***************************************************************************)

\* model.properties of a model: the program declares the properties of its
\* own models; the compiler's models have none.
ModelProps(m) == IF m \in DOMAIN program.props THEN program.props[m] ELSE <<>>

\* isIntrinsic(program, t)
isIntrinsic(t) == t.kind = "Model" /\ ModelTable[t.id].intrinsic # ""

\* getIntrinsicModelName(program, t)
getIntrinsicModelName(t) == ModelTable[t.id].intrinsic

\* t.name of a model type
TypeName(t) == ModelTable[t.id].name

\* The key of a model property in the state maps.
PropertyKey(owner, name) == <<"ModelProperty", owner, name>>

\* The node a diagnostic targets, when it is a type.
TypeTarget(t) == <<t.kind, t.id, "">>

\* program.stateMap(fieldIndexKey).get(property)
FieldIndexGet(key) == IF key \in DOMAIN fieldIndex THEN fieldIndex[key] ELSE undefined

\* reportDiagnostic(program, {code, messageId, target}) on the threaded state
Diag(code, messageId, target) == [code |-> code, messageId |-> messageId, target |-> target]

Report(cl, d) == [cl EXCEPT !.diagnostics = Append(@, d)]

(***************************************************************************)
(* emit.ts: the helpers of declarationsFromNamespace.  cl is the closure   *)
(* state [declarations, visitedTypes, diagnostics, overflow]; depth is the *)
(* number of visitType activations on the call stack.  overflow means a    *)
(* RangeError is propagating: every caller returns at once.                *)
(***************************************************************************)

RECURSIVE visitType(_, _, _)
RECURSIVE toMessage(_, _, _)
RECURSIVE toFields(_, _, _, _, _)
RECURSIVE toField(_, _, _, _)
RECURSIVE addType(_, _, _)
RECURSIVE intrinsicToProto(_, _, _, _)

\* The fixed table of intrinsicToProto.
protoType ==
  [ bytes   |-> scalar("bytes"),
    boolean |-> scalar("bool"),
    int32   |-> scalar("int32"),
    int64   |-> scalar("int64"),
    uint32  |-> scalar("uint32"),
    uint64  |-> scalar("uint64"),
    string  |-> scalar("string"),
    float32 |-> scalar("float"),
    float64 |-> scalar("double") ]

\* The property names every object literal inherits from Object.prototype.
ObjectPrototypeNames ==
  { "constructor", "toString", "toLocaleString", "valueOf", "hasOwnProperty",
    "isPrototypeOf", "propertyIsEnumerable", "__proto__", "__defineGetter__",
    "__defineSetter__", "__lookupGetter__", "__lookupSetter__" }

\* The value {...}[name] finds for an inherited name: a function or
\* Object.prototype, truthy and no wire type.
inherited(name) == <<"$inherited", name>>

\* {...}[name]: an own property of the table, an inherited one, or undefined
protoTypeAt(name) ==
  IF name \in DOMAIN protoType THEN protoType[name]
  ELSE IF name \in ObjectPrototypeNames THEN inherited(name)
  ELSE <<"undefined">>

\* keyProto[1]: the name of a scalar or reference, the key of a map, and
\* undefined for an inherited value, which has no element 1
ElementOne(type) == IF type[1] = "$inherited" THEN "undefined" ELSE type[2]

\* declarations.push(message) once toMessage has returned it
PushMessage(r) ==
  IF r.cl.overflow THEN r.cl
  ELSE [r.cl EXCEPT !.declarations = Append(@, r.message)]

\* visitType without the visitedTypes.has(model) test
visitTypeUnchecked(model, cl, depth) ==
  IF depth >= MaxDepth THEN [cl EXCEPT !.overflow = TRUE]
  ELSE PushMessage(toMessage(model, [cl EXCEPT !.visitedTypes = SetAdd(@, model)], depth + 1))

\* visitType adding the model to visitedTypes only after toMessage returned
MarkAndPush(model, r) ==
  IF r.cl.overflow THEN r.cl
  ELSE [r.cl EXCEPT !.visitedTypes = SetAdd(@, model),
                    !.declarations = Append(@, r.message)]

visitTypeMarkAfter(model, cl, depth) ==
  IF model \in Range(cl.visitedTypes) THEN cl
  ELSE IF depth >= MaxDepth THEN [cl EXCEPT !.overflow = TRUE]
  ELSE MarkAndPush(model, toMessage(model, cl, depth + 1))

\* visitType placing the message where the declarations ended when the model
\* was entered, ahead of the messages found through its fields
DeclareAt(n, r) ==
  IF r.cl.overflow THEN r.cl
  ELSE [r.cl EXCEPT !.declarations =
          SubSeq(@, 1, n) \o <<r.message>> \o SubSeq(@, n + 1, Len(@))]

visitTypeDeclareFirst(model, cl, depth) ==
  IF model \in Range(cl.visitedTypes) THEN cl
  ELSE IF depth >= MaxDepth THEN [cl EXCEPT !.overflow = TRUE]
  ELSE DeclareAt(Len(cl.declarations),
                 toMessage(model, [cl EXCEPT !.visitedTypes = Append(@, model)], depth + 1))

visitType(model, cl, depth) ==
  IF model \in Range(cl.visitedTypes) THEN cl
  ELSE IF depth >= MaxDepth THEN [cl EXCEPT !.overflow = TRUE]
  ELSE PushMessage(toMessage(model, [cl EXCEPT !.visitedTypes = Append(@, model)], depth + 1))

\* {kind: "message", name: model.name, declarations: <the mapped fields>}
Message(model, r) ==
  [ message |-> [kind |-> "message", name |-> ModelTable[model].name,
                 declarations |-> r.fields],
    cl |-> r.cl ]

toMessage(model, cl, depth) ==
  Message(model, toFields(model, ModelProps(model), 1, [fields |-> <<>>, cl |-> cl], depth))

\* The fields mapped so far with the next one
WithField(acc, r) == [fields |-> Append(acc.fields, r.field), cl |-> r.cl]

\* [...model.properties.values()].map(toField), from property i on
toFields(model, props, i, acc, depth) ==
  IF i > Len(props) \/ acc.cl.overflow THEN acc
  ELSE toFields(model, props, i + 1,
                WithField(acc, toField(model, props[i], acc.cl, depth)), depth)

\* {kind: "field", name, type: <the mapped type>, index: <the field index>}
Field(model, property, r) ==
  [ field |-> [kind |-> "field", name |-> property.name, type |-> r.type,
               index |-> FieldIndexGet(PropertyKey(model, property.name))],
    cl |-> r.cl ]

toField(model, property, cl, depth) ==
  Field(model, property, addType(property.type, cl, depth))

\* addType referring to a model without visiting it
addTypeNoVisit(t, cl, depth) ==
  IF cl.overflow THEN [type |-> ref("<unreachable>"), cl |-> cl]
  ELSE IF isIntrinsic(t) THEN intrinsicToProto(getIntrinsicModelName(t), t, cl, depth)
  ELSE IF t.kind = "Model"
       THEN [type |-> ref(TypeName(t)), cl |-> cl]
  ELSE [ type |-> ref("<unreachable>"),
         cl |-> Report(cl, Diag("unsupported-field-type", "unconvertible", TypeTarget(t))) ]

addType(t, cl, depth) ==
  IF cl.overflow THEN [type |-> ref("<unreachable>"), cl |-> cl]
  ELSE IF isIntrinsic(t) THEN intrinsicToProto(getIntrinsicModelName(t), t, cl, depth)
  ELSE IF t.kind = "Model"
       THEN [type |-> ref(TypeName(t)), cl |-> visitType(t.id, cl, depth)]
  ELSE [ type |-> ref("<unreachable>"),
         cl |-> Report(cl, Diag("unsupported-field-type", "unconvertible", TypeTarget(t))) ]

\* map(keyProto[1], <the mapped value type>)
MapOf(keyProto, valueProto) ==
  [type |-> map(ElementOne(keyProto.type), valueProto.type), cl |-> valueProto.cl]

\* The value type is mapped after the key type.
MapValue(keyProto, valueType, depth) ==
  MapOf(keyProto, addType(valueType, keyProto.cl, depth))

intrinsicToProto(name, t, cl, depth) ==
  IF t.kind = "Model" /\ TypeName(t) = "Map" /\ ModelTable[t.id].ns = "Cadl"
  THEN IF Len(ModelTable[t.id].args) < 2 THEN [type |-> ref("<unreachable>"), cl |-> cl]
       ELSE MapValue(addType(ModelTable[t.id].args[1], cl, depth),
                     ModelTable[t.id].args[2], depth)
  ELSE IF protoTypeAt(name) # <<"undefined">>
       THEN [type |-> protoTypeAt(name), cl |-> cl]
  ELSE [ type |-> ref("<unreachable>"),
         cl |-> Report(cl, Diag("unsupported-field-type", "unknown-intrinsic", TypeTarget(t))) ]

\* addModelAsInput taking the first parameter of several
addModelAsInputFirst(op, cl) ==
  IF Len(op.parameters) < 1
  THEN [ ref |-> ref("<unreachable>"),
         cl |-> Report(cl, Diag("unsupported-input-type", "wrong-number",
                                <<"Model", op.bag, "">>)) ]
  ELSE IF op.parameters[1].type.kind # "Model"
  THEN [ ref |-> ref("<unreachable>"),
         cl |-> Report(cl, Diag("unsupported-input-type", "wrong-type",
                                TypeTarget(op.parameters[1].type))) ]
  ELSE [ ref |-> ref(TypeName(op.parameters[1].type)),
         cl |-> visitType(op.parameters[1].type.id, cl, 0) ]

\* addModelAsInput(operation.parameters): [ref, cl]
addModelAsInput(op, cl) ==
  IF Len(op.parameters) # 1
  THEN [ ref |-> ref("<unreachable>"),
         cl |-> Report(cl, Diag("unsupported-input-type", "wrong-number",
                                <<"Model", op.bag, "">>)) ]
  ELSE IF op.parameters[1].type.kind # "Model"
  THEN [ ref |-> ref("<unreachable>"),
         cl |-> Report(cl, Diag("unsupported-input-type", "wrong-type",
                                TypeTarget(op.parameters[1].type))) ]
  ELSE [ ref |-> ref(TypeName(op.parameters[1].type)),
         cl |-> visitType(op.parameters[1].type.id, cl, 0) ]

\* addReturnType(operation.returnType): [ref, cl]
addReturnType(t, cl) ==
  IF t.kind = "Model"
  THEN [ref |-> ref(TypeName(t)), cl |-> visitType(t.id, cl, 0)]
  ELSE [ ref |-> ref("<unreachable>"),
         cl |-> Report(cl, Diag("unsupported-return-type", "default", TypeTarget(t))) ]

\* recursiveAddInterfaces(namespace), adding to the insertion-ordered set acc
RECURSIVE recursiveAddInterfaces(_, _)
RECURSIVE AddNested(_, _, _)
RECURSIVE AddNestedAll(_, _, _)
RECURSIVE AddMembers(_, _, _)

AddMembers(ifaces, i, acc) ==
  IF i > Len(ifaces) THEN acc
  ELSE AddMembers(ifaces, i + 1,
                  IF ifaces[i] \in services THEN SetAdd(acc, ifaces[i]) ELSE acc)

\* The scan recursing into every nested namespace, packages included
AddNestedAll(nested, i, acc) ==
  IF i > Len(nested) THEN acc
  ELSE AddNestedAll(nested, i + 1, recursiveAddInterfaces(nested[i], acc))

AddNested(nested, i, acc) ==
  IF i > Len(nested) THEN acc
  ELSE AddNested(nested, i + 1,
                 IF ~MapHas(packages, nested[i])
                 THEN recursiveAddInterfaces(nested[i], acc) ELSE acc)

recursiveAddInterfaces(namespace, acc) ==
  AddNested(NsNamespaces[namespace], 1, AddMembers(NsInterfaces[namespace], 1, acc))

(***************************************************************************)
(* grpc.ts: the decorators.  Each takes the state maps it touches and      *)
(* returns them with what it did.                                          *)
(***************************************************************************)

\* validateDecoratorTarget(program, target, name, kind)
validateDecoratorTarget(target, kind) == target[1] = kind

\* validateDecoratorParamType(program, target, value, kind)
validateDecoratorParamType(value, kind) == value.kind = kind

\* $package(context, target, name): the package map afterwards
package(target, name, pkgs) ==
  IF ~validateDecoratorTarget(target, "Namespace") \/ ~validateDecoratorParamType(name, "String")
  THEN pkgs
  ELSE MapSet(pkgs, target[2], name)

\* $service(context, target): the service set afterwards
service(target, svcs) ==
  IF ~validateDecoratorTarget(target, "Interface")
  THEN svcs
  ELSE svcs \cup {target[2]}

\* $field(context, target, fieldIndex): the field-index map and the
\* diagnostics afterwards, and whether it threw the InternalError.
field(target, x, fi, dg) ==
  IF ~validateDecoratorTarget(target, "ModelProperty") \/ ~validateDecoratorParamType(x, "Number")
  THEN [fieldIndex |-> fi, diagnostics |-> dg, threw |-> FALSE]
  ELSE IF ~IsInteger(x) \/ LeqZero(x)
  THEN [fieldIndex |-> fi, diagnostics |-> Append(dg, Diag("field-index", "invalid", target)),
        threw |-> FALSE]
  ELSE IF Gt(x, MAX_FIELD_INDEX)
  THEN [fieldIndex |-> fi, diagnostics |-> Append(dg, Diag("field-index", "out-of-bounds", target)),
        threw |-> FALSE]
  ELSE LET dg1 == IF Geq(x, IMPLEMENTATION_RESERVED_RANGE[1])
                     /\ Leq(x, IMPLEMENTATION_RESERVED_RANGE[2])
                  THEN Append(dg, Diag("field-index", "reserved", target))
                  ELSE dg
       IN IF ParentKind(target[2]) # "ModelStatement"
          THEN [fieldIndex |-> fi, diagnostics |-> dg1, threw |-> TRUE]
          ELSE [fieldIndex |-> (target :> x) @@ fi, diagnostics |-> dg1, threw |-> FALSE]

\* Whether the decorator's validation calls reported an error to the host.
ValidationFails(d) ==
  \/ d.name = "package"
     /\ (~validateDecoratorTarget(d.target, "Namespace")
         \/ ~validateDecoratorParamType(d.arg, "String"))
  \/ d.name = "service" /\ ~validateDecoratorTarget(d.target, "Interface")
  \/ d.name = "field"
     /\ (~validateDecoratorTarget(d.target, "ModelProperty")
         \/ ~validateDecoratorParamType(d.arg, "Number"))

(***************************************************************************)
(* Actions: the decorators, in the order the program applies them.         *)
(***************************************************************************)

lowerVars == << files, pkgIdx, serviceInterfaces, ifaceIdx, opIdx, methods, input,
                declarations, visitedTypes >>

emitVars == << fileIdx, fsLog >>

CurrentDecorator == program.decorators[decoratorIdx]

Decorating == pc = "decorate" /\ decoratorIdx <= Len(program.decorators)

ApplyPackage ==
  /\ Decorating
  /\ CurrentDecorator.name = "package"
  /\ packages' = package(CurrentDecorator.target, CurrentDecorator.arg, packages)
  /\ hostErrors' = (hostErrors \/ ValidationFails(CurrentDecorator))
  /\ decoratorIdx' = decoratorIdx + 1
  /\ UNCHANGED << program, pc, services, fieldIndex, diagnostics, lowerVars, emitVars >>

ApplyService ==
  /\ Decorating
  /\ CurrentDecorator.name = "service"
  /\ services' = service(CurrentDecorator.target, services)
  /\ hostErrors' = (hostErrors \/ ValidationFails(CurrentDecorator))
  /\ decoratorIdx' = decoratorIdx + 1
  /\ UNCHANGED << program, pc, packages, fieldIndex, diagnostics, lowerVars, emitVars >>

ApplyField ==
  /\ Decorating
  /\ CurrentDecorator.name = "field"
  /\ LET r == field(CurrentDecorator.target, CurrentDecorator.arg, fieldIndex, diagnostics)
     IN /\ fieldIndex' = r.fieldIndex
        /\ diagnostics' = r.diagnostics
        /\ pc' = IF r.threw THEN "crashed" ELSE pc
  /\ hostErrors' = (hostErrors \/ ValidationFails(CurrentDecorator))
  /\ decoratorIdx' = decoratorIdx + 1
  /\ UNCHANGED << program, packages, services, lowerVars, emitVars >>

\* $onEmit: createGrpcEmitter(program)() enters doEmit, which calls cadlToProto.
OnEmit ==
  /\ pc = "decorate"
  /\ decoratorIdx > Len(program.decorators)
  /\ pc' = "lower"
  /\ pkgIdx' = 1
  /\ files' = <<>>
  /\ UNCHANGED << program, decoratorIdx, packages, services, fieldIndex, diagnostics,
                  hostErrors, serviceInterfaces, ifaceIdx, opIdx, methods, input,
                  declarations, visitedTypes, emitVars >>

(***************************************************************************)
(* Actions: cadlToProto.                                                   *)
(***************************************************************************)

Closure == [ declarations |-> declarations, visitedTypes |-> visitedTypes,
             diagnostics |-> diagnostics, overflow |-> FALSE ]

CurrentInterface == serviceInterfaces[ifaceIdx]

CurrentOperation == program.ops[CurrentInterface][opIdx]

\* declarationsFromNamespace(namespace), up to the loop over the interfaces
EnterNamespace ==
  /\ pc = "lower"
  /\ pkgIdx <= Len(packages)
  /\ serviceInterfaces' = recursiveAddInterfaces(packages[pkgIdx].key, <<>>)
  /\ declarations' = <<>>
  /\ visitedTypes' = <<>>
  /\ ifaceIdx' = 1
  /\ opIdx' = 1
  /\ methods' = <<>>
  /\ pc' = "iface"
  /\ UNCHANGED << program, decoratorIdx, packages, services, fieldIndex, diagnostics,
                  hostErrors, files, pkgIdx, input, emitVars >>

\* The closure state and the diagnostics after a helper returned r
ClosureWritten(r) ==
  /\ declarations' = r.cl.declarations
  /\ visitedTypes' = r.cl.visitedTypes
  /\ diagnostics' = r.cl.diagnostics

InputEvaluated(r) ==
  /\ ClosureWritten(r)
  /\ input' = r.ref
  /\ pc' = IF r.cl.overflow THEN "overflow" ELSE "returns"

\* toMethodFromOperation giving up on the method when the return type is rejected
ReturnsEvaluatedOrDropped(r) ==
  /\ ClosureWritten(r)
  /\ IF r.cl.overflow
     THEN pc' = "overflow" /\ UNCHANGED << methods, opIdx >>
     ELSE /\ pc' = "iface"
          /\ methods' = IF r.ref = ref("<unreachable>") THEN methods
                        ELSE Append(methods, [ kind |-> "method",
                                               name |-> CurrentOperation.name,
                                               input |-> input,
                                               returns |-> r.ref ])
          /\ opIdx' = opIdx + 1

ReturnsEvaluated(r) ==
  /\ ClosureWritten(r)
  /\ IF r.cl.overflow
     THEN pc' = "overflow" /\ UNCHANGED << methods, opIdx >>
     ELSE /\ pc' = "iface"
          /\ methods' = Append(methods, [ kind |-> "method",
                                          name |-> CurrentOperation.name,
                                          input |-> input,
                                          returns |-> r.ref ])
          /\ opIdx' = opIdx + 1

\* toMethodFromOperation: input: addModelAsInput(operation.parameters)
MethodInput ==
  /\ pc = "iface"
  /\ ifaceIdx <= Len(serviceInterfaces)
  /\ opIdx <= Len(program.ops[CurrentInterface])
  /\ InputEvaluated(addModelAsInput(CurrentOperation, Closure))
  /\ UNCHANGED << program, decoratorIdx, packages, services, fieldIndex, hostErrors,
                  files, pkgIdx, serviceInterfaces, ifaceIdx, opIdx, methods, emitVars >>

\* toMethodFromOperation: returns: addReturnType(operation.returnType), and
\* the method declaration joins the mapped operations
MethodReturns ==
  /\ pc = "returns"
  /\ ReturnsEvaluated(addReturnType(CurrentOperation.returnType, Closure))
  /\ UNCHANGED << program, decoratorIdx, packages, services, fieldIndex, hostErrors,
                  files, pkgIdx, serviceInterfaces, ifaceIdx, input, emitVars >>

\* declarations.push({kind: "service", ...}) once the operations are mapped
PushService ==
  /\ pc = "iface"
  /\ ifaceIdx <= Len(serviceInterfaces)
  /\ opIdx > Len(program.ops[CurrentInterface])
  /\ declarations' = Append(declarations, [ kind |-> "service",
                                            name |-> CurrentInterface,
                                            operations |-> methods ])
  /\ ifaceIdx' = ifaceIdx + 1
  /\ opIdx' = 1
  /\ methods' = <<>>
  /\ UNCHANGED << program, pc, decoratorIdx, packages, services, fieldIndex, diagnostics,
                  hostErrors, files, pkgIdx, serviceInterfaces, input, visitedTypes,
                  emitVars >>

\* return declarations: the file of the package is complete
ReturnDeclarations ==
  /\ pc = "iface"
  /\ ifaceIdx > Len(serviceInterfaces)
  /\ files' = Append(files, [ package |-> packages[pkgIdx].value,
                              options |-> <<>>,
                              declarations |-> declarations ])
  /\ pkgIdx' = pkgIdx + 1
  /\ pc' = "lower"
  /\ UNCHANGED << program, decoratorIdx, packages, services, fieldIndex, diagnostics,
                  hostErrors, serviceInterfaces, ifaceIdx, opIdx, methods, input,
                  declarations, visitedTypes, emitVars >>

\* cadlToProto returns the files to doEmit
ReturnFiles ==
  /\ pc = "lower"
  /\ pkgIdx > Len(packages)
  /\ pc' = "check"
  /\ UNCHANGED << program, decoratorIdx, packages, services, fieldIndex, diagnostics,
                  hostErrors, lowerVars, emitVars >>

(***************************************************************************)
(* Actions: doEmit after cadlToProto.  Strings are sequences of            *)
(* characters; a path is the sequence of its segments.                     *)
(***************************************************************************)

\* The severity the library gives a diagnostic: the reserved-range report
\* is a warning, every other one an error.
Severity(d) ==
  IF d.code = "field-index" /\ d.messageId = "reserved" THEN "warning" ELSE "error"

\* program.hasError()
hasError == hostErrors \/ \E i \in 1..Len(diagnostics) : Severity(diagnostics[i]) = "error"

\* String.prototype.split(sep) for a one-character separator
RECURSIVE SplitFrom(_, _, _, _, _)
SplitFrom(s, sep, i, cur, acc) ==
  IF i > Len(s) THEN Append(acc, cur)
  ELSE IF s[i] = sep THEN SplitFrom(s, sep, i + 1, <<>>, Append(acc, cur))
  ELSE SplitFrom(s, sep, i + 1, Append(cur, s[i]), acc)

split(s, sep) == SplitFrom(s, sep, 1, <<>>, <<>>)

\* resolvePath(base, ...segments): the segments joined under base; empty
\* segments add nothing.
resolvePath(base, segments) == base \o SelectSeq(segments, LAMBDA seg : seg # <<>>)

\* resolvePath(options.outDir) with the default options
outDir == << <<"cadl-output">> >>

\* const packageSlug = file.package?.split(".") ?? ["main"]
packageSlug(file) ==
  IF file.package = undefined THEN << <<"m", "a", "i", "n">> >>
  ELSE split(file.package.str, ".")

\* filePath without the slice
filePathOfAll(file) == resolvePath(outDir, packageSlug(file))

\* const filePath = resolvePath(outDir, ...packageSlug.slice(0, -1))
filePath(file) == resolvePath(outDir, SubSeq(packageSlug(file), 1, Len(packageSlug(file)) - 1))

\* resolvePath(filePath, packageSlug.at(-1) + ".proto")
protoPath(file) ==
  resolvePath(filePath(file), << packageSlug(file)[Len(packageSlug(file))] \o <<".proto">> >>)

\* The test without !program.hasError()
shouldEmitDespiteErrors == ~program.noEmit

\* if (!program.compilerOptions.noEmit && !program.hasError())
shouldEmit == ~program.noEmit /\ ~hasError

notEmitVars == << program, decoratorIdx, packages, services, fieldIndex, diagnostics,
                  hostErrors, lowerVars >>

CheckEmit ==
  /\ pc = "check"
  /\ fileIdx' = 1
  /\ pc' = IF shouldEmit /\ Len(files) > 0 THEN "mkdirp" ELSE "done"
  /\ UNCHANGED << notEmitVars, fsLog >>

\* await program.host.mkdirp(filePath)
Mkdirp ==
  /\ pc = "mkdirp"
  /\ fsLog' = Append(fsLog, [call |-> "mkdirp", path |-> filePath(files[fileIdx])])
  /\ pc' = "writeFile"
  /\ UNCHANGED << notEmitVars, fileIdx >>

\* await program.host.writeFile(..., writeProtoFile(file))
WriteFile ==
  /\ pc = "writeFile"
  /\ fsLog' = Append(fsLog, [call |-> "writeFile", path |-> protoPath(files[fileIdx])])
  /\ fileIdx' = fileIdx + 1
  /\ pc' = IF fileIdx < Len(files) THEN "mkdirp" ELSE "done"
  /\ UNCHANGED notEmitVars

Next ==
  \/ ApplyPackage
  \/ ApplyService
  \/ ApplyField
  \/ OnEmit
  \/ EnterNamespace
  \/ MethodInput
  \/ MethodReturns
  \/ PushService
  \/ ReturnDeclarations
  \/ ReturnFiles
  \/ CheckEmit
  \/ Mkdirp
  \/ WriteFile

(***************************************************************************)
(* The programs compiled: four families, each varying one part of the      *)
(* source graph over a bounded set and fixing the rest.                    *)
(***************************************************************************)

Dec(name, target, arg) == [name |-> name, target |-> target, arg |-> arg]

NamespaceTarget(ns) == <<"Namespace", ns, "">>

InterfaceTarget(iface) == <<"Interface", iface, "">>

\* The package names the programs give their namespaces.
PackageName ==
  [ N1 |-> <<"a", ".", "b">>, N2 |-> <<"a", ".", "b", ".", "c">>,
    N3 |-> <<"d">>, N4 |-> <<"a", ".", "e">> ]

PackageDecorators ==
  << Dec("package", NamespaceTarget("N1"), JsStr(PackageName["N1"])),
     Dec("package", NamespaceTarget("N2"), JsStr(PackageName["N2"])),
     Dec("package", NamespaceTarget("N3"), JsStr(PackageName["N3"])),
     Dec("package", NamespaceTarget("N4"), JsStr(PackageName["N4"])) >>

ServiceDecorators ==
  << Dec("service", InterfaceTarget("I1"), undefined),
     Dec("service", InterfaceTarget("I2"), undefined),
     Dec("service", InterfaceTarget("I3"), undefined),
     Dec("service", InterfaceTarget("I4"), undefined) >>

\* The decorators of a program that marks the namespaces pkgs as packages
\* and the interfaces svcs as services, followed by its field decorators.
Decorators(pkgs, svcs, fields) ==
  SelectSeq(PackageDecorators, LAMBDA d : d.target[2] \in pkgs)
    \o SelectSeq(ServiceDecorators, LAMBDA d : d.target[2] \in svcs)
    \o fields

FieldDec(owner, name, x) == Dec("field", PropertyKey(owner, name), x)

NoOps == [i \in Interfaces |-> <<>>]

ParamName == <<"p1", "p2", "p3", "p4">>

\* The parameter bags of up to MaxParams properties with types from T.
ParamBags(T) ==
  UNION { { [i \in 1..n |-> Prop(ParamName[i], f[i])] : f \in [1..n -> T] } : n \in 0..MaxParams }

\* Family 1: every choice of packages and services over the namespace tree.
BaseProps ==
  [ M1 |-> <<Prop("a", ModelT("string"))>>, M2 |-> <<Prop("b", ModelT("int32"))>>,
    M3 |-> <<Prop("d", ModelT("M2"))>>, Anon |-> <<>> ]

BaseOps ==
  [ I1 |-> <<Op("op1", "I1.op1", <<Prop("p1", ModelT("M1"))>>, ModelT("M2"))>>,
    I2 |-> <<Op("op2", "I2.op2", <<Prop("p1", ModelT("M2"))>>, ModelT("M1"))>>,
    I3 |-> <<Op("op3", "I3.op3", <<Prop("p1", ModelT("M1"))>>, ModelT("M1"))>>,
    I4 |-> <<Op("op4", "I4.op4", <<Prop("p1", ModelT("M3"))>>, ModelT("M2"))>> ]

BaseFields == << FieldDec("M1", "a", JsNum(1)), FieldDec("M2", "b", JsNum(2)) >>

NamespacePrograms ==
  { [ props |-> BaseProps, ops |-> BaseOps,
      decorators |-> Decorators(pkgs, svcs, BaseFields), noEmit |-> ne ] :
    pkgs \in SUBSET {"N1", "N2", "N3", "N4"}, svcs \in SUBSET Interfaces, ne \in BOOLEAN }

\* Family 2: the signatures of the operations of one service.
SignatureProps ==
  [ M1 |-> <<Prop("a", ModelT("string")), Prop("b", ModelT("M2"))>>,
    M2 |-> <<Prop("c", ModelT("int32"))>>,
    M3 |-> <<Prop("d", ModelT("M3"))>>,
    Anon |-> <<Prop("z", ModelT("string"))>> ]

ParamTypes == {ModelT("M1"), ModelT("M3"), ModelT("string"), UnionT}

ReturnTypes == {ModelT("M1"), ModelT("M2"), ModelT("Anon"), ModelT("MapSI"), UnionT}

SiblingOps ==
  { Op("sib", "I1.sib", <<Prop("p1", ModelT("M1"))>>, ModelT("M2")),
    Op("sib", "I1.sib", <<Prop("p1", ModelT("M2"))>>, ModelT("M1")),
    Op("sib", "I1.sib", <<>>, ArrayT) }

SignaturePrograms ==
  { [ props |-> SignatureProps,
      ops |-> [NoOps EXCEPT !["I1"] =
                 IF first THEN <<Op("op1", "I1.op1", bag, ret), sib>>
                 ELSE <<sib, Op("op1", "I1.op1", bag, ret)>>],
      decorators |-> Decorators({"N1"}, {"I1"}, <<FieldDec("M1", "a", JsNum(1))>>),
      noEmit |-> FALSE ] :
    bag \in ParamBags(ParamTypes), ret \in ReturnTypes, sib \in SiblingOps,
    first \in BOOLEAN }

\* Family 3: the types of the fields of the models.
FieldTypes ==
  { ModelT("string"), ModelT("float64"), ModelT("int8"), ModelT("Ctor"), ModelT("M1"),
    ModelT("M2"), ModelT("M3"), ModelT("Anon"), ModelT("MapSI"), ModelT("MapSM2"),
    ModelT("MapFS"), ModelT("MapM3S"), ModelT("MapSMap"), ModelT("MapNone"),
    ModelT("MyMap"), UnionT }

ModelPrograms ==
  { [ props |-> [ M1 |-> <<Prop("a", t1), Prop("b", t2)>>, M2 |-> <<Prop("c", t3)>>,
                  M3 |-> <<Prop("d", t4)>>, Anon |-> <<Prop("z", ModelT("bytes"))>> ],
      ops |-> [NoOps EXCEPT !["I1"] =
                 <<Op("op1", "I1.op1", <<Prop("p1", ModelT("M1"))>>, ModelT("M2"))>>],
      decorators |-> Decorators({"N1"}, {"I1"},
                       << FieldDec("M1", "a", JsNum(1)), FieldDec("M1", "b", JsNum(2)),
                          FieldDec("M2", "c", JsNum(1)) >>),
      noEmit |-> FALSE ] :
    t1 \in FieldTypes, t2 \in FieldTypes, t3 \in FieldTypes,
    t4 \in {ModelT("M1"), ModelT("M3"), ModelT("int32")} }

\* Family 4: the applications of the field decorator.
FieldArgs ==
  { JsNum(-1), JsNum(0), JsNum(1), JsNum(2), JsNum(18999), JsNum(19000), JsNum(19500),
    JsNum(19999), JsNum(20000), JsNum(MAX_FIELD_INDEX), JsNum(MAX_FIELD_INDEX + 1),
    JsFrac(3, 2), JsFrac(38001, 2), JsNaN, JsStr(<<"1">>) }

FieldTargets ==
  { PropertyKey("M1", "a"), PropertyKey("M1", "b"), PropertyKey("Anon", "z"),
    PropertyKey("I1.op1", "p1"), <<"Model", "M1", "">> }

FieldLists ==
  { <<>> } \cup
  { << Dec("field", t, x) >> : t \in FieldTargets, x \in FieldArgs } \cup
  { << Dec("field", t, x), Dec("field", u, y) >> :
      t \in FieldTargets, x \in FieldArgs,
      u \in {PropertyKey("M1", "a"), PropertyKey("M1", "b")},
      y \in {JsNum(0), JsNum(3), JsNum(19000)} }

FieldProps ==
  [ M1 |-> <<Prop("a", ModelT("string")), Prop("b", ModelT("Anon"))>>,
    M2 |-> <<>>, M3 |-> <<>>, Anon |-> <<Prop("z", ModelT("int32"))>> ]

FieldPrograms ==
  { [ props |-> FieldProps,
      ops |-> [NoOps EXCEPT !["I1"] =
                 <<Op("op1", "I1.op1", <<Prop("p1", ModelT("M1"))>>, ModelT("M1"))>>],
      decorators |-> Decorators({"N1"}, {"I1"}, fl),
      noEmit |-> ne ] :
    fl \in FieldLists, ne \in BOOLEAN }

InitProgram(p) ==
  /\ program = p
  /\ pc = "decorate"
  /\ decoratorIdx = 1
  /\ packages = <<>>
  /\ services = {}
  /\ fieldIndex = <<>>
  /\ diagnostics = <<>>
  /\ hostErrors = FALSE
  /\ files = <<>>
  /\ pkgIdx = 1
  /\ serviceInterfaces = <<>>
  /\ ifaceIdx = 1
  /\ opIdx = 1
  /\ methods = <<>>
  /\ input = ref("<unreachable>")
  /\ declarations = <<>>
  /\ visitedTypes = <<>>
  /\ fileIdx = 1
  /\ fsLog = <<>>

Init ==
  \/ \E p \in NamespacePrograms : InitProgram(p)
  \/ \E p \in SignaturePrograms : InitProgram(p)
  \/ \E p \in ModelPrograms : InitProgram(p)
  \/ \E p \in FieldPrograms : InitProgram(p)

Spec == Init /\ [][Next]_vars

(***************************************************************************)
(* Vocabulary of the properties, read off the source graph alone.          *)
(***************************************************************************)

\* The models a type stands for where it is used as a field type: a model
\* that is not intrinsic, or the template arguments of a Cadl.Map.
RECURSIVE FieldModels(_)
FieldModels(t) ==
  IF t.kind # "Model" THEN {}
  ELSE IF ModelTable[t.id].intrinsic = "" THEN {t.id}
  ELSE IF ModelTable[t.id].name = "Map" /\ ModelTable[t.id].ns = "Cadl"
          /\ Len(ModelTable[t.id].args) = 2
       THEN FieldModels(ModelTable[t.id].args[1]) \cup FieldModels(ModelTable[t.id].args[2])
  ELSE {}

\* The models the fields of model m refer to.
Referenced(m) == UNION { FieldModels(ModelProps(m)[i].type) : i \in 1..Len(ModelProps(m)) }

\* The models reachable from the models in S through fields.
RECURSIVE Reachable(_)
Reachable(S) ==
  IF (UNION { Referenced(m) : m \in S }) \subseteq S THEN S
  ELSE Reachable(S \cup UNION { Referenced(m) : m \in S })

\* The model an operation takes as its input, and the one it returns.
InputModels(op) ==
  IF Len(op.parameters) = 1 /\ op.parameters[1].type.kind = "Model"
  THEN {op.parameters[1].type.id} ELSE {}

ReturnModels(op) == IF op.returnType.kind = "Model" THEN {op.returnType.id} ELSE {}

\* The models reached through an operation.
ReachedThrough(op) == Reachable(InputModels(op) \cup ReturnModels(op))

\* The positions of the service and of the message declarations of a file.
ServiceDecls(decls) == { i \in 1..Len(decls) : decls[i].kind = "service" }

MessageDecls(decls) == { i \in 1..Len(decls) : decls[i].kind = "message" }

MessagesNamed(decls, n) == { i \in MessageDecls(decls) : decls[i].name = n }

\* The operations of the service interfaces a file declares, as
\* <<interface, position>>.
FileOperations(decls) ==
  UNION { { <<decls[i].name, j>> : j \in 1..Len(program.ops[decls[i].name]) } :
          i \in ServiceDecls(decls) }

\* The method a file declares for operation <<interface, position>>.
MethodOf(decls, o) ==
  decls[CHOOSE i \in ServiceDecls(decls) : decls[i].name = o[1]].operations[o[2]]

(***************************************************************************)
(* C1.  In a file, a model reached through two or more operations of the   *)
(* file's services has exactly one message declaration, and every method   *)
(* whose operation takes or returns the model refers to it by the model's  *)
(* name.                                                                   *)
(***************************************************************************)

SharedModelOnce(decls) ==
  \A m \in ModelIds :
    LET through == { o \in FileOperations(decls) :
                       m \in ReachedThrough(program.ops[o[1]][o[2]]) }
    IN Cardinality(through) >= 2 =>
         /\ Cardinality(MessagesNamed(decls, ModelTable[m].name)) = 1
         /\ \A o \in through :
              /\ m \in InputModels(program.ops[o[1]][o[2]])
                   => MethodOf(decls, o).input = ref(ModelTable[m].name)
              /\ m \in ReturnModels(program.ops[o[1]][o[2]])
                   => MethodOf(decls, o).returns = ref(ModelTable[m].name)

C1_SharedModelDeclaredOnce ==
  \A k \in 1..Len(files) : SharedModelOnce(files[k].declarations)

\* A finished pass whose file has two methods that name the same model,
\* one as its input and one as what it returns.
C1_Witness ==
  /\ pc = "done"
  /\ \E k \in 1..Len(files) : \E m \in UserModels :
       \E o1, o2 \in FileOperations(files[k].declarations) :
         /\ o1 # o2
         /\ m \in InputModels(program.ops[o1[1]][o1[2]])
         /\ m \in ReturnModels(program.ops[o2[1]][o2[2]])
         /\ MethodOf(files[k].declarations, o1).input = ref(ModelTable[m].name)
         /\ MethodOf(files[k].declarations, o2).returns = ref(ModelTable[m].name)

(***************************************************************************)
(* C2.  Every service declaration of the file of package P comes from a    *)
(* service-marked interface whose nearest enclosing package namespace is   *)
(* P (the scan never entered another package), and over all files an       *)
(* interface has at most one service declaration.                          *)
(***************************************************************************)

\* The namespace that declares namespace ns, and the one that declares an interface.
ParentOf(ns) == CHOOSE q \in Namespaces : \E i \in 1..Len(NsNamespaces[q]) : NsNamespaces[q][i] = ns

NamespaceOf(iface) ==
  CHOOSE q \in Namespaces : \E i \in 1..Len(NsInterfaces[q]) : NsInterfaces[q][i] = iface

\* The nearest namespace at or above ns that is a package; "G" if none.
RECURSIVE NearestPackage(_)
NearestPackage(ns) ==
  IF ns = "G" \/ MapHas(packages, ns) THEN ns ELSE NearestPackage(ParentOf(ns))

ServiceSites(iface) ==
  UNION { { <<k, i>> : i \in { j \in ServiceDecls(files[k].declarations) :
                                  files[k].declarations[j].name = iface } } :
          k \in 1..Len(files) }

C2_ServiceInOneFile ==
  /\ \A k \in 1..Len(files) : \A i \in ServiceDecls(files[k].declarations) :
       /\ files[k].declarations[i].name \in services
       /\ NearestPackage(NamespaceOf(files[k].declarations[i].name)) = packages[k].key
  /\ \A iface \in Interfaces : Cardinality(ServiceSites(iface)) <= 1

\* A finished pass over a package nested in another package, each with a
\* service of its own, the inner one declared in the inner package's file.
C2_Witness ==
  /\ pc = "done"
  /\ MapHas(packages, "N1") /\ MapHas(packages, "N2")
  /\ {"I1", "I2", "I4"} \subseteq services
  /\ \E k \in 1..Len(files) :
       /\ packages[k].key = "N2"
       /\ { files[k].declarations[i].name : i \in ServiceDecls(files[k].declarations) }
            = {"I2", "I4"}

(***************************************************************************)
(* C3.  A program that marks no namespace as a package is lowered to       *)
(* exactly one file, without a package name (written as main.proto), that  *)
(* declares every service-marked interface and every message reachable     *)
(* from those services.                                                    *)
(***************************************************************************)

C3_NoPackageOneFile ==
  (pc = "done" /\ Len(packages) = 0) =>
    /\ Len(files) = 1
    /\ files[1].package = undefined
    /\ \A iface \in services :
         \E i \in ServiceDecls(files[1].declarations) : files[1].declarations[i].name = iface
    /\ \A iface \in services : \A j \in 1..Len(program.ops[iface]) :
         \A m \in ReachedThrough(program.ops[iface][j]) :
           MessagesNamed(files[1].declarations, ModelTable[m].name) # {}

(***************************************************************************)
(* Vocabulary of the field-index properties.                               *)
(***************************************************************************)

\* An integer from 1 to 2^29 - 1.
ValidIndex(x) ==
  x.kind = "Number" /\ x.den # 0 /\ x.num % x.den = 0
  /\ (x.num \div x.den) \in 1..(2^29 - 1)

\* An integer from 19000 to 19999.
ReservedIndex(x) == ValidIndex(x) /\ (x.num \div x.den) \in 19000..19999

\* The applications of the field decorator to a model property with a
\* number, among the first n decorators of the program.
FieldApplications(n) ==
  { j \in 1..n : /\ program.decorators[j].name = "field"
                 /\ program.decorators[j].target[1] = "ModelProperty"
                 /\ program.decorators[j].arg.kind = "Number" }

\* All the decorators before decoratorIdx have run.
Applied == decoratorIdx - 1

\* The decorator that ran last is an application of the field decorator.
FieldJustApplied ==
  /\ pc \in {"decorate", "crashed"}
  /\ Applied \in FieldApplications(Applied)

LastDecorator == program.decorators[Applied]

\* The index the last storing application among the first n decorators
\* declared for property key k; undefined if there is none.  An application
\* stores when its index is valid and the property's parent is a model
\* statement.
RECURSIVE DeclaredIndex(_, _)
DeclaredIndex(k, n) ==
  IF n = 0 THEN undefined
  ELSE IF /\ n \in FieldApplications(n)
          /\ program.decorators[n].target = k
          /\ ValidIndex(program.decorators[n].arg)
          /\ ParentKind(k[2]) = "ModelStatement"
       THEN program.decorators[n].arg
  ELSE DeclaredIndex(k, n - 1)

(***************************************************************************)
(* C4.  Right after the field decorator ran on a property with index i: a   *)
(* valid i is what the field-index map holds for the property;             *)
(* any other i left a field-index diagnostic (invalid, out-of-bounds) as   *)
(* the last diagnostic and the map without the new index.                  *)
(***************************************************************************)

C4_Original ==
  FieldJustApplied =>
    IF ValidIndex(LastDecorator.arg)
    THEN FieldIndexGet(LastDecorator.target) = LastDecorator.arg
    ELSE /\ Len(diagnostics) > 0
         /\ diagnostics[Len(diagnostics)].code = "field-index"
         /\ diagnostics[Len(diagnostics)].messageId \in {"invalid", "out-of-bounds"}
         /\ FieldIndexGet(LastDecorator.target) = DeclaredIndex(LastDecorator.target, Applied - 1)

\* The decorator has just thrown its InternalError on a valid index of a
\* property of a model expression, and the map holds nothing for it.
C4_Thrown ==
  /\ FieldJustApplied
  /\ pc = "crashed"
  /\ ValidIndex(LastDecorator.arg) /\ ~ReservedIndex(LastDecorator.arg)
  /\ LastDecorator.target = PropertyKey("Anon", "z")
  /\ LastDecorator.target \notin DOMAIN fieldIndex
  /\ diagnostics = <<>>

(***************************************************************************)
(* C5.  Right after the field decorator ran with an index from 19000 to     *)
(* 19999, the last diagnostic is field-index/reserved and the              *)
(* field-index map holds the index for the property.                       *)
(***************************************************************************)

C5_Original ==
  (FieldJustApplied /\ ReservedIndex(LastDecorator.arg)) =>
    /\ Len(diagnostics) > 0
    /\ diagnostics[Len(diagnostics)] = Diag("field-index", "reserved", LastDecorator.target)
    /\ FieldIndexGet(LastDecorator.target) = LastDecorator.arg

\* The decorator has just reported index 19500 of a parameter of an
\* operation as reserved and thrown its InternalError, storing nothing.
C5_Thrown ==
  /\ FieldJustApplied
  /\ pc = "crashed"
  /\ LastDecorator.arg = JsNum(19500)
  /\ LastDecorator.target = PropertyKey("I1.op1", "p1")
  /\ diagnostics = << Diag("field-index", "reserved", LastDecorator.target) >>
  /\ LastDecorator.target \notin DOMAIN fieldIndex

(***************************************************************************)
(* C6.  Projecting the input of an operation whose parameter bag does not  *)
(* have exactly one property records one unsupported-input-type /          *)
(* wrong-number diagnostic on the bag (the only one there is for it),      *)
(* makes the placeholder reference the method's input, and adds no         *)
(* declaration and no visited model.                                       *)
(***************************************************************************)

Unreachable == <<"$ref", "<unreachable>">>

ProjectingInput ==
  /\ pc = "iface"
  /\ ifaceIdx <= Len(serviceInterfaces)
  /\ opIdx <= Len(program.ops[CurrentInterface])

WrongNumber(bag) == Diag("unsupported-input-type", "wrong-number", <<"Model", bag, "">>)

C6_Step ==
  /\ (ProjectingInput /\ Len(CurrentOperation.parameters) # 1)
       => /\ diagnostics' = Append(diagnostics, WrongNumber(CurrentOperation.bag))
          /\ Cardinality({ i \in 1..Len(diagnostics') :
                             diagnostics'[i] = WrongNumber(CurrentOperation.bag) }) = 1
          /\ input' = Unreachable
          /\ declarations' = declarations
          /\ visitedTypes' = visitedTypes
          /\ pc' = "returns"
  /\ (pc = "returns" /\ pc' = "iface" /\ Len(CurrentOperation.parameters) # 1)
       => methods'[Len(methods')].input = Unreachable

C6_WrongNumberOfParameters == [][C6_Step]_vars

\* A finished pass over an operation with two parameters, the first of
\* them a model: its method's input is the placeholder, the diagnostic is
\* there, and the file declares no message.
C6_Witness ==
  /\ pc = "done"
  /\ \E k \in 1..Len(files) : \E o \in FileOperations(files[k].declarations) :
       /\ Len(program.ops[o[1]][o[2]].parameters) = 2
       /\ program.ops[o[1]][o[2]].parameters[1].type.kind = "Model"
       /\ MethodOf(files[k].declarations, o).input = Unreachable
       /\ MessageDecls(files[k].declarations) = {}
       /\ \E i \in 1..Len(diagnostics) : diagnostics[i] = WrongNumber(program.ops[o[1]][o[2]].bag)

(***************************************************************************)
(* C7.  The pass runs through whatever diagnostics it raises: a service    *)
(* declaration has one method per operation of its interface, in order,    *)
(* each the method of that operation alone (its name, the reference to its *)
(* input model and to its return model, or the placeholder); a message has *)
(* one field per property of its model, in order, each typed by the        *)
(* property's type alone; and every model an operation of the file reaches *)
(* has its message in the file.                                            *)
(***************************************************************************)

ScalarOf ==
  [ bytes |-> "bytes", boolean |-> "bool", int32 |-> "int32", int64 |-> "int64",
    uint32 |-> "uint32", uint64 |-> "uint64", string |-> "string", float32 |-> "float",
    float64 |-> "double" ]

\* The wire type of a field of type t.
RECURSIVE WireType(_)
WireType(t) ==
  IF t.kind # "Model" THEN Unreachable
  ELSE IF ModelTable[t.id].intrinsic = "" THEN <<"$ref", ModelTable[t.id].name>>
  ELSE IF ModelTable[t.id].name = "Map" /\ ModelTable[t.id].ns = "Cadl"
       THEN IF Len(ModelTable[t.id].args) # 2 THEN Unreachable
            ELSE << "$map", WireType(ModelTable[t.id].args[1])[2],
                    WireType(ModelTable[t.id].args[2]) >>
  ELSE IF ModelTable[t.id].intrinsic \in DOMAIN ScalarOf
       THEN <<"$scalar", ScalarOf[ModelTable[t.id].intrinsic]>>
  ELSE IF ModelTable[t.id].intrinsic \in ObjectPrototypeNames
       THEN <<"$inherited", ModelTable[t.id].intrinsic>>
  ELSE Unreachable

\* The method of an operation.
MethodFor(op) ==
  [ kind |-> "method", name |-> op.name,
    input |-> IF InputModels(op) = {} THEN Unreachable
              ELSE <<"$ref", ModelTable[op.parameters[1].type.id].name>>,
    returns |-> IF ReturnModels(op) = {} THEN Unreachable
                ELSE <<"$ref", ModelTable[op.returnType.id].name>> ]

\* msg is the message of model m.
MessageFor(msg, m) ==
  /\ msg.name = ModelTable[m].name
  /\ Len(msg.declarations) = Len(ModelProps(m))
  /\ \A f \in 1..Len(msg.declarations) :
       /\ msg.declarations[f].kind = "field"
       /\ msg.declarations[f].name = ModelProps(m)[f].name
       /\ msg.declarations[f].type = WireType(ModelProps(m)[f].type)

WholeFile(decls) ==
  /\ \A i \in ServiceDecls(decls) :
       decls[i].operations =
         [j \in 1..Len(program.ops[decls[i].name]) |-> MethodFor(program.ops[decls[i].name][j])]
  /\ \A i \in MessageDecls(decls) : \E m \in ModelIds : MessageFor(decls[i], m)
  /\ \A o \in FileOperations(decls) : \A m \in ReachedThrough(program.ops[o[1]][o[2]]) :
       MessagesNamed(decls, ModelTable[m].name) # {}

C7_PassNeverAborts ==
  /\ pc # "overflow"
  /\ pc \in {"check", "mkdirp", "writeFile", "done"} => Len(files) = Len(packages)
  /\ \A k \in 1..Len(files) : WholeFile(files[k].declarations)
  /\ (pc \in {"iface", "returns"} /\ ifaceIdx <= Len(serviceInterfaces))
       => methods = [j \in 1..Len(methods) |-> MethodFor(program.ops[CurrentInterface][j])]

\* A finished pass over a service whose first operation fails on its input
\* and on its return type and whose second operation is lowered in full.
C7_Witness ==
  /\ pc = "done"
  /\ \E k \in 1..Len(files) : \E i \in ServiceDecls(files[k].declarations) :
       /\ Len(files[k].declarations[i].operations) = 2
       /\ files[k].declarations[i].operations[1].input = Unreachable
       /\ files[k].declarations[i].operations[1].returns = Unreachable
       /\ files[k].declarations[i].operations[2].input = <<"$ref", "M1">>
       /\ files[k].declarations[i].operations[2].returns = <<"$ref", "M2">>
       /\ MessagesNamed(files[k].declarations, "M1") # {}
       /\ MessagesNamed(files[k].declarations, "M2") # {}
  /\ Len(diagnostics) >= 2

(***************************************************************************)
(* C8.  With a recorded error or with noEmit set, doEmit calls neither     *)
(* mkdirp nor writeFile; and by the time it tests the two, cadlToProto has *)
(* returned the file of every package.                                     *)
(***************************************************************************)

C8_NoOutputOnError ==
  /\ (program.noEmit \/ hasError) => fsLog = <<>>
  /\ pc \in {"check", "mkdirp", "writeFile", "done"} => Len(files) = Len(packages)
  /\ fsLog # <<>> => pc \in {"mkdirp", "writeFile", "done"}

\* A finished run with an error diagnostic: the file was built in memory,
\* with its service and a message, and nothing was written.
C8_Witness ==
  /\ pc = "done"
  /\ ~program.noEmit
  /\ hasError
  /\ Len(files) = 1
  /\ ServiceDecls(files[1].declarations) # {}
  /\ MessageDecls(files[1].declarations) # {}
  /\ fsLog = <<>>

(***************************************************************************)
(* doEmit's writing loop on its own, over every list of up to MaxFiles     *)
(* ProtoFile values, with and without a package name.                      *)
(***************************************************************************)

EmitPackages ==
  { undefined, JsStr(<<>>), JsStr(<<"a">>), JsStr(<<"a", ".", "b">>),
    JsStr(<<"a", ".", "b", ".", "c">>), JsStr(<<"c", "o", "m", ".", "x">>) }

EmitFileLists ==
  UNION { [1..n -> { [package |-> pk, options |-> <<>>, declarations |-> <<>>] :
                     pk \in EmitPackages }] : n \in 0..MaxFiles }

EmitInit ==
  /\ \E ne \in BOOLEAN :
       program = [ props |-> BaseProps, ops |-> NoOps, decorators |-> <<>>, noEmit |-> ne ]
  /\ pc = "check"
  /\ files \in EmitFileLists
  /\ hostErrors \in BOOLEAN
  /\ decoratorIdx = 1
  /\ packages = <<>>
  /\ services = {}
  /\ fieldIndex = <<>>
  /\ diagnostics = <<>>
  /\ pkgIdx = 1
  /\ serviceInterfaces = <<>>
  /\ ifaceIdx = 1
  /\ opIdx = 1
  /\ methods = <<>>
  /\ input = ref("<unreachable>")
  /\ declarations = <<>>
  /\ visitedTypes = <<>>
  /\ fileIdx = 1
  /\ fsLog = <<>>

EmitNext == CheckEmit \/ Mkdirp \/ WriteFile

EmitSpec == EmitInit /\ [][EmitNext]_vars

(***************************************************************************)
(* C9.  A file with a package name is written under the output directory   *)
(* at the path whose directories and file stem, joined by dots, spell the  *)
(* package name, none of them holding a dot, with the extension .proto     *)
(* after the stem; a file without a package name is written as main.proto  *)
(* in the output directory; and each writeFile comes right after the       *)
(* mkdirp of the directory it writes into.                                 *)
(***************************************************************************)

RECURSIVE JoinDots(_)
JoinDots(segs) ==
  IF Len(segs) = 0 THEN <<>>
  ELSE IF Len(segs) = 1 THEN segs[1]
  ELSE segs[1] \o <<".">> \o JoinDots(Tail(segs))

HasDot(seg) == \E i \in 1..Len(seg) : seg[i] = "."

\* path is where a file of package pk is written.
IsProtoPath(pk, path) ==
  LET below == SubSeq(path, Len(outDir) + 1, Len(path))
      name == below[Len(below)]
      stem == SubSeq(name, 1, Len(name) - 1)
      dirs == SubSeq(below, 1, Len(below) - 1)
  IN /\ Len(path) > Len(outDir)
     /\ SubSeq(path, 1, Len(outDir)) = outDir
     /\ Len(name) >= 1
     /\ name[Len(name)] = ".proto"
     /\ \A i \in 1..Len(dirs) : ~HasDot(dirs[i])
     /\ ~HasDot(stem)
     /\ IF pk = undefined
        THEN dirs = <<>> /\ stem = <<"m", "a", "i", "n">>
        ELSE JoinDots(Append(dirs, stem)) = pk.str

C9_OutputPath ==
  /\ \A i \in 1..Len(fsLog) :
       IF i % 2 = 1
       THEN fsLog[i].call = "mkdirp"
       ELSE /\ fsLog[i].call = "writeFile"
            /\ IsProtoPath(files[i \div 2].package, fsLog[i].path)
            /\ fsLog[i - 1].call = "mkdirp"
            /\ fsLog[i - 1].path = SubSeq(fsLog[i].path, 1, Len(fsLog[i].path) - 1)
  /\ (pc = "done" /\ ~program.noEmit /\ ~hasError) => Len(fsLog) = 2 * Len(files)

\* A finished run that wrote a file without a package as main.proto and
\* the file of package com.x as com/x.proto.
C9_Witness ==
  /\ pc = "done"
  /\ Len(files) = 2
  /\ files[1].package = undefined
  /\ fsLog = << [call |-> "mkdirp", path |-> << <<"cadl-output">> >>],
                [call |-> "writeFile",
                 path |-> << <<"cadl-output">>, <<"m", "a", "i", "n", ".proto">> >>],
                [call |-> "mkdirp", path |-> << <<"cadl-output">>, <<"c", "o", "m">> >>],
                [call |-> "writeFile",
                 path |-> << <<"cadl-output">>, <<"c", "o", "m">>, <<"x", ".proto">> >>] >>

(***************************************************************************)
(* C10.  Message discovery terminates, also where a model has a field of   *)
(* its own type or models refer to each other in a cycle: no visit is      *)
(* still open when a projection returns, no model is entered twice in one  *)
(* file, every model entered has its one message, a finished file has      *)
(* exactly one message for every model on a cycle that its operations      *)
(* reach, a run that has not ended is at a step it can take, and every     *)
(* step moves the run forward through its bounded loops.                   *)
(***************************************************************************)

\* Model m refers to itself through one or more fields.
OnCycle(m) == m \in Reachable(Referenced(m))

NoDuplicates(seq) == \A i, j \in 1..Len(seq) : seq[i] = seq[j] => i = j

CyclesDeclaredOnce(decls) ==
  \A o \in FileOperations(decls) : \A m \in ReachedThrough(program.ops[o[1]][o[2]]) :
    OnCycle(m) => Cardinality(MessagesNamed(decls, ModelTable[m].name)) = 1

DiscoveryWellFounded ==
  /\ pc # "overflow"
  /\ NoDuplicates(visitedTypes)
  /\ pc \in {"iface", "returns"} =>
       /\ Cardinality(MessageDecls(declarations)) = Len(visitedTypes)
       /\ \A i \in 1..Len(visitedTypes) :
            Cardinality(MessagesNamed(declarations, ModelTable[visitedTypes[i]].name)) = 1
  /\ \A k \in 1..Len(files) : CyclesDeclaredOnce(files[k].declarations)

\* Where the run is: the part of doEmit it is in, then the loop counters from
\* the outermost loop to the innermost.  Every counter is bounded by the
\* length of the list its loop runs over.
PhaseOf ==
  CASE pc = "decorate" -> 0
    [] pc \in {"lower", "iface", "returns"} -> 1
    [] pc = "check" -> 2
    [] pc \in {"mkdirp", "writeFile"} -> 3
    [] OTHER -> 4

Flag(b) == IF b THEN 1 ELSE 0

Position ==
  << PhaseOf, decoratorIdx, pkgIdx, Flag(pc \in {"iface", "returns"}), ifaceIdx, opIdx,
     Flag(pc = "returns"), fileIdx, Flag(pc = "writeFile") >>

LexLess(a, b) ==
  \E i \in 1..Len(a) : a[i] < b[i] /\ \A j \in 1..(i - 1) : a[j] = b[j]

Ended == pc \in {"done", "crashed"}

\* The guard of one of the actions holds.
CanStep ==
  \/ Decorating /\ CurrentDecorator.name \in {"package", "service", "field"}
  \/ pc = "decorate" /\ decoratorIdx > Len(program.decorators)
  \/ pc = "lower"
  \/ pc = "iface" /\ ifaceIdx > Len(serviceInterfaces)
  \/ pc = "iface" /\ ifaceIdx <= Len(serviceInterfaces)
       /\ opIdx \in 1..(Len(program.ops[CurrentInterface]) + 1)
  \/ pc \in {"returns", "check", "mkdirp", "writeFile"}

C10_DiscoveryTerminates ==
  /\ [](DiscoveryWellFounded /\ (Ended \/ CanStep))
  /\ [][LexLess(Position, Position')]_vars

\* A finished pass whose file holds the one message of a model with a field
\* of its own type, or the two messages of two models that refer to each
\* other.
C10_Witness ==
  /\ pc = "done"
  /\ \E k \in 1..Len(files) :
       \E o \in FileOperations(files[k].declarations) :
         \E m \in ReachedThrough(program.ops[o[1]][o[2]]) :
           /\ OnCycle(m)
           /\ \E n \in Referenced(m) \ {m} : OnCycle(n) /\ m \in Reachable({n})
           /\ \A n \in Reachable({m}) :
                Cardinality(MessagesNamed(files[k].declarations, ModelTable[n].name)) = 1

(***************************************************************************)
(* The discovery of a file, read off the source graph: the services of the *)
(* package in scan order, each followed by the models first reached        *)
(* through its operations, depth first, every entry with the service or    *)
(* model through which it was first reached.                               *)
(***************************************************************************)

RECURSIVE ScanOrder(_)
RECURSIVE ScanNested(_, _)

\* The service interfaces of a namespace in declaration order, then those of
\* its nested namespaces that are not packages, in their declared order.
ScanOrder(ns) ==
  SelectSeq(NsInterfaces[ns], LAMBDA i : i \in services) \o ScanNested(NsNamespaces[ns], 1)

ScanNested(nested, i) ==
  IF i > Len(nested) THEN <<>>
  ELSE (IF MapHas(packages, nested[i]) THEN <<>> ELSE ScanOrder(nested[i]))
         \o ScanNested(nested, i + 1)

\* The models a field type leads to, in the order they are reached.
RECURSIVE FieldModelSeq(_)
FieldModelSeq(t) ==
  IF t.kind # "Model" THEN <<>>
  ELSE IF ModelTable[t.id].intrinsic = "" THEN <<t.id>>
  ELSE IF ModelTable[t.id].name = "Map" /\ ModelTable[t.id].ns = "Cadl"
          /\ Len(ModelTable[t.id].args) = 2
       THEN FieldModelSeq(ModelTable[t.id].args[1]) \o FieldModelSeq(ModelTable[t.id].args[2])
  ELSE <<>>

RECURSIVE ChildrenFrom(_, _)
ChildrenFrom(m, i) ==
  IF i > Len(ModelProps(m)) THEN <<>>
  ELSE [j \in 1..Len(FieldModelSeq(ModelProps(m)[i].type)) |->
          [id |-> FieldModelSeq(ModelProps(m)[i].type)[j], parent |-> m]]
       \o ChildrenFrom(m, i + 1)

\* The models an operation leads to: its input, then what it returns.
OperationModels(iface, op) ==
  (IF Len(op.parameters) = 1 /\ op.parameters[1].type.kind = "Model"
   THEN << [id |-> op.parameters[1].type.id, parent |-> iface] >> ELSE <<>>)
  \o (IF op.returnType.kind = "Model"
      THEN << [id |-> op.returnType.id, parent |-> iface] >> ELSE <<>>)

RECURSIVE ServiceModels(_, _)
ServiceModels(iface, j) ==
  IF j > Len(program.ops[iface]) THEN <<>>
  ELSE OperationModels(iface, program.ops[iface][j]) \o ServiceModels(iface, j + 1)

\* Depth-first walk: todo holds the models still to look at, first first.
RECURSIVE Walk(_, _, _)
Walk(todo, seen, out) ==
  IF todo = <<>> THEN [seen |-> seen, out |-> out]
  ELSE IF Head(todo).id \in seen THEN Walk(Tail(todo), seen, out)
  ELSE Walk(ChildrenFrom(Head(todo).id, 1) \o Tail(todo), seen \cup {Head(todo).id},
            Append(out, [kind |-> "message", id |-> Head(todo).id,
                         name |-> ModelTable[Head(todo).id].name,
                         parent |-> Head(todo).parent]))

RECURSIVE DiscoverFrom(_, _, _)
DiscoverFrom(ifaces, i, w) ==
  IF i > Len(ifaces) THEN w.out
  ELSE DiscoverFrom(ifaces, i + 1,
         Walk(ServiceModels(ifaces[i], 1), w.seen,
              Append(w.out, [kind |-> "service", id |-> ifaces[i], name |-> ifaces[i],
                             parent |-> ""])))

Discovery(ns) == DiscoverFrom(ScanOrder(ns), 1, [seen |-> {}, out |-> <<>>])

\* Entry x of discovery D was first reached through entry y, directly or
\* through other entries.
RECURSIVE ReachedVia(_, _, _)
ReachedVia(D, x, y) ==
  /\ D[x].parent # ""
  /\ \/ D[y].id = D[x].parent
     \/ \E z \in 1..Len(D) : D[z].id = D[x].parent /\ z < x /\ ReachedVia(D, z, y)

\* The positions in decls of the declaration of entry e.
PositionsOf(decls, e) ==
  { i \in 1..Len(decls) : decls[i].kind = e.kind /\ decls[i].name = e.name }

Declared(decls, D) ==
  /\ Len(decls) = Len(D)
  /\ \A x \in 1..Len(D) : Cardinality(PositionsOf(decls, D[x])) = 1

PositionOf(decls, e) == CHOOSE i \in PositionsOf(decls, e) : TRUE

\* The services of decls, in order.
ServiceNames(decls) ==
  LET svc == SelectSeq(decls, LAMBDA d : d.kind = "service")
  IN [i \in 1..Len(svc) |-> svc[i].name]

(***************************************************************************)
(* C11 as stated: a service is declared before the messages first          *)
(* discovered through its methods, a message before the messages first     *)
(* discovered through its own fields, and the services are in scan order.  *)
(***************************************************************************)

DiscoveryOrdered(decls, D) ==
  /\ Declared(decls, D)
  /\ \A x, y \in 1..Len(D) :
       ReachedVia(D, x, y) => PositionOf(decls, D[y]) < PositionOf(decls, D[x])

C11_Original ==
  \A k \in 1..Len(files) :
    /\ DiscoveryOrdered(files[k].declarations, Discovery(packages[k].key))
    /\ ServiceNames(files[k].declarations) = ScanOrder(packages[k].key)

(***************************************************************************)
(* C11.  In every file, the declarations are the services and messages of  *)
(* the discovery, each once, in the order in which their translation was   *)
(* completed: a service is declared after the messages first discovered    *)
(* through its methods, a message after the messages first discovered      *)
(* through its own fields, two declarations of which neither was           *)
(* discovered through the other are in the order of their discovery, and   *)
(* the services are in scan order.                                         *)
(***************************************************************************)

CompletionOrdered(decls, D) ==
  /\ Declared(decls, D)
  /\ \A x, y \in 1..Len(D) :
       /\ ReachedVia(D, x, y) => PositionOf(decls, D[x]) < PositionOf(decls, D[y])
       /\ (x < y /\ ~ReachedVia(D, y, x))
            => PositionOf(decls, D[x]) < PositionOf(decls, D[y])

C11_CompletionOrder ==
  \A k \in 1..Len(files) :
    /\ CompletionOrdered(files[k].declarations, Discovery(packages[k].key))
    /\ ServiceNames(files[k].declarations) = ScanOrder(packages[k].key)

\* A finished file with two services, where the message of a model comes
\* after the message of the model its field refers to and before the service
\* whose operation takes it.
C11_Witness ==
  /\ pc = "done"
  /\ \E k \in 1..Len(files) :
       LET decls == files[k].declarations
           D == Discovery(packages[k].key)
       IN /\ Len(ServiceNames(decls)) >= 2
          /\ \E x, y, z \in 1..Len(D) :
               /\ D[z].kind = "service" /\ D[y].kind = "message" /\ D[x].kind = "message"
               /\ D[y].parent = D[z].id /\ D[x].parent = D[y].id
               /\ PositionOf(decls, D[x]) < PositionOf(decls, D[y])
               /\ PositionOf(decls, D[y]) < PositionOf(decls, D[z])

(***************************************************************************)
(* C12.  Every map wire type in a field declaration has a key that is      *)
(* string or an integral scalar name and a value that is a scalar or a     *)
(* reference, never another map.                                           *)
(***************************************************************************)

\* ScalarIntegralName | "string" of proto.ts
MapKeyNames ==
  { "string", "bool", "int32", "int64", "uint32", "uint64", "sint32", "sint64",
    "fixed32", "fixed64", "sfixed32", "sfixed64" }

WellFormedMap(type) ==
  /\ type[2] \in MapKeyNames
  /\ type[3][1] \in {"$scalar", "$ref"}

FieldsWellFormed(msg) ==
  \A f \in 1..Len(msg.declarations) :
    msg.declarations[f].type[1] = "$map" => WellFormedMap(msg.declarations[f].type)

C12_MapsWellFormed ==
  \A k \in 1..Len(files) : \A i \in MessageDecls(files[k].declarations) :
    FieldsWellFormed(files[k].declarations[i])

(***************************************************************************)
(* Vocabulary of C13: the references of a file and the diagnostics of the  *)
(* lowering pass.                                                          *)
(***************************************************************************)

\* The codes of the diagnostics cadlToProto reports.
LoweringCodes ==
  {"unsupported-input-type", "unsupported-return-type", "unsupported-field-type"}

LoweringDiagnostics == SelectSeq(diagnostics, LAMBDA d : d.code \in LoweringCodes)

\* The names a wire type refers to: its own if it is a reference, those of
\* its value if it is a map.
RECURSIVE RefsOf(_)
RefsOf(type) ==
  IF type[1] = "$ref" THEN {type[2]}
  ELSE IF type[1] = "$map" THEN RefsOf(type[3])
  ELSE {}

MethodRefs(svc) ==
  UNION { RefsOf(svc.operations[j].input) \cup RefsOf(svc.operations[j].returns) :
          j \in 1..Len(svc.operations) }

FieldRefs(msg) ==
  UNION { RefsOf(msg.declarations[f].type) : f \in 1..Len(msg.declarations) }

AllRefs(decls) ==
  UNION { IF decls[i].kind = "service" THEN MethodRefs(decls[i]) ELSE FieldRefs(decls[i]) :
          i \in 1..Len(decls) }

RefsResolve(decls) ==
  \A n \in AllRefs(decls) : n # "<unreachable>" /\ MessagesNamed(decls, n) # {}

\* Type t is a Cadl.Map without its two template arguments, or a Cadl.Map
\* with such a map as an argument.
RECURSIVE LacksArguments(_)
LacksArguments(t) ==
  /\ t.kind = "Model"
  /\ ModelTable[t.id].intrinsic # ""
  /\ ModelTable[t.id].name = "Map" /\ ModelTable[t.id].ns = "Cadl"
  /\ \/ Len(ModelTable[t.id].args) < 2
     \/ \E a \in 1..Len(ModelTable[t.id].args) : LacksArguments(ModelTable[t.id].args[a])

\* Every map in a field of a model the file discovers has its arguments.
MapsComplete(ns) ==
  \A x \in 1..Len(Discovery(ns)) :
    Discovery(ns)[x].kind = "message" =>
      \A f \in 1..Len(ModelProps(Discovery(ns)[x].id)) :
        ~LacksArguments(ModelProps(Discovery(ns)[x].id)[f].type)

(***************************************************************************)
(* C13 as stated: with no diagnostic of the lowering pass, no reference of *)
(* a file is the placeholder and every reference names a message of the    *)
(* same file.                                                              *)
(***************************************************************************)

C13_Original ==
  LoweringDiagnostics = <<>> =>
    \A k \in 1..Len(files) : RefsResolve(files[k].declarations)

(***************************************************************************)
(* C13.  With no diagnostic of the lowering pass, in every file whose      *)
(* discovered models have no field with a Cadl.Map that lacks a template   *)
(* argument, no reference is the placeholder and every reference of a      *)
(* method input, a method output, a field or a map value names a message   *)
(* declared in the same file.                                              *)
(***************************************************************************)

C13_ReferencesResolve ==
  LoweringDiagnostics = <<>> =>
    \A k \in 1..Len(files) :
      MapsComplete(packages[k].key) => RefsResolve(files[k].declarations)

\* A finished pass without a diagnostic whose file refers to messages from
\* a method input, a method output, a field and a map value.
C13_Witness ==
  /\ pc = "done"
  /\ diagnostics = <<>>
  /\ \E k \in 1..Len(files) :
       LET decls == files[k].declarations
       IN /\ RefsResolve(decls)
          /\ \E i \in ServiceDecls(decls) : MethodRefs(decls[i]) # {}
          /\ \E i \in MessageDecls(decls) : \E f \in 1..Len(decls[i].declarations) :
               decls[i].declarations[f].type[1] = "$ref"
          /\ \E i \in MessageDecls(decls) : \E f \in 1..Len(decls[i].declarations) :
               /\ decls[i].declarations[f].type[1] = "$map"
               /\ decls[i].declarations[f].type[3][1] = "$ref"

====
